---- MODULE Spec2Model ----
(***************************************************************************)
(* State-machine model of the React adapter for universal-stores.          *)
(*                                                                         *)
(* One component instance reads a store through useReadonlyStore.  The     *)
(* model holds the stores (value, listeners, lazy start handler), the      *)
(* instance's hook state (the useState slot, the useRef slot, the effect)  *)
(* and the host's render scheduling.  The hook bodies are operators that   *)
(* thread the store heap through the calls they make, in program order.    *)
(***************************************************************************)
EXTENDS Integers, Sequences, FiniteSets, TLC

\* ---------------------------------------------------------------- bounds
MaxVal == 3
MaxChanges == 2
MaxSubscriptions == 2
MaxStoreChanges == 3

\* Number.MAX_SAFE_INTEGER is 2^53 - 1; the model's integers are 32 bits wide,
\* so the modulus is the largest one they hold.  Every counter the model
\* reaches is far below either value, so (r + 1) % m is r + 1 under both.
MAX_SAFE_INTEGER == 2147483647

Stores == {"A", "B"}
\* The stores a collection passed to useReadonlyStores can hold.
AllStores == Stores \cup {"C"}
\* The stores makeDerivedStore returns, in order of creation.
DerivedNames == <<"d1", "d2", "d3", "d4", "d5", "d6">>
DerivedStores == {DerivedNames[k] : k \in DOMAIN DerivedNames}
Values == 0..MaxVal
Undefined == -1
Updaters == {"inc", "dec"}
\* The component instances that are bound to stores at the same time.
Instances == {"i1", "i2"}

VARIABLES
    value,           \* store -> the value it holds
    subs,            \* every subscription made so far, in order of creation
    initializations, \* store -> runs of its start handler
    valueReads,      \* store -> reads of its value getter
    peak,            \* most listeners ever registered at once, over all stores
    phase,           \* position of the instance in its lifecycle
    propStore,       \* the store prop of the latest render
    contextRef,      \* useRef slot: 0 (undefined) or the index of its subscription
    rerenderFlag,    \* useState slot of the ref-based hook
    pendingFlag,     \* queued setRerenderFlag updates not yet rendered
    staleScheduled,  \* a render was scheduled through a discarded attempt's dispatcher
    context,         \* useState slot of the effect-based hook (context.value)
    pendingContext,  \* queued setContext values not yet rendered
    effectSub,       \* the effect's cleanup: 0 or the index of its subscription
    rendered,        \* the value returned by the latest committed render
    triggers,        \* setRerenderFlag calls so far
    changes,         \* mutations of the bound store that failed its equality check
    script,          \* progress through the counter scenario (0: off)
    renderedSeq,     \* values rendered while the scenario is followed
    setter,          \* useCallback slot of useStore: its deps and the memoized function
    storeCalls,      \* store methods called by the latest invocation of the setter
    keptSetter,      \* a setter some render returned, kept by the code it was handed to
    derivedStores,   \* the collection each derived store was made over, in order of creation
    propStores,      \* the stores prop of the latest render
    previousContextRef, \* useRef slot of useReadonlyStores: {stores, derived$}
    storesContext,   \* useState slot of the effect-based useReadonlyStores
    pendingStoresContext, \* queued setContext({stores, derived$}) not yet rendered
    peers,           \* instance -> its lifecycle position and hook state, when several share a store
    renders,         \* committed renders of the effect-based component since its mount
    children,        \* the render prop of a wrapper component: its invocations and last arguments
    renderTrigger    \* a rerender flag on its own: the modulus, the flag, the flag before the last update

storeVars == <<value, subs, initializations, valueReads, peak>>
refVars == <<contextRef, rerenderFlag, pendingFlag, staleScheduled>>
effVars == <<context, pendingContext, effectSub>>
hostVars == <<phase, propStore, rendered>>
obsVars == <<triggers, changes, script, renderedSeq>>
writeVars == <<setter, storeCalls, keptSetter>>
storesVars ==
    <<derivedStores, propStores, previousContextRef, storesContext,
      pendingStoresContext>>
bridgeVars == <<writeVars, storesVars, peers, renders, children, renderTrigger>>
vars == <<storeVars, refVars, effVars, hostVars, obsVars, bridgeVars>>

\* ------------------------------------------------------- store contract
\* Every store compares with ===, whatever comparator it was made with.
EqualDefault(s, a, b) == a = b

\* Store "A" compares with ===; store "B" was made with comparator: () => false.
Equal(s, a, b) == IF s = "B" THEN FALSE ELSE a = b

Apply(f, c) == IF f = "inc" THEN c + 1 ELSE c - 1

Heap ==
    [subs |-> subs, init |-> initializations, reads |-> valueReads, peak |-> peak,
     derived |-> derivedStores]

NOfSubscriptionsIn(sb, s) ==
    Cardinality({i \in DOMAIN sb : sb[i].store = s /\ sb[i].live})

nOfSubscriptions(s) == NOfSubscriptionsIn(subs, s)

LiveIn(sb) == Cardinality({i \in DOMAIN sb : sb[i].live})

Max(a, b) == IF a >= b THEN a ELSE b

\* Variants of the listener with one of its statements changed.
RefListenerNoFlag(sub, v) ==
    [sub |-> [sub EXCEPT !.wrappedValue = v, !.firstSubscriberCall = FALSE],
     dispatch |-> TRUE]

RefListenerSilent(sub, v) ==
    [sub |-> [sub EXCEPT !.wrappedValue = v, !.firstSubscriberCall = FALSE],
     dispatch |-> FALSE]

RefListenerNoWrite(sub, v) ==
    [sub |-> [sub EXCEPT !.firstSubscriberCall = FALSE,
                         !.wrappedValue = IF sub.firstSubscriberCall THEN v ELSE @],
     dispatch |-> ~sub.firstSubscriberCall]

\* The listener useReadonlyStore registers: what one call does to the
\* subscription's closure, and whether it calls setRerenderFlag.
RefListener(sub, v) ==
    [sub |-> [sub EXCEPT !.wrappedValue = v, !.firstSubscriberCall = FALSE],
     dispatch |-> ~sub.firstSubscriberCall]

\* A listener that ignores the call made inside subscribe.
EffListenerSkipFirst(sub, v) ==
    [sub |-> [sub EXCEPT !.firstSubscriberCall = FALSE],
     dispatch |-> ~sub.firstSubscriberCall]

\* The listener the effect-based useReadonlyStore registers: setContext({value}).
EffListener(sub, v) == [sub |-> sub, dispatch |-> TRUE]

\* The listener a derived store registers on each of its sources: it keeps
\* the source's value for the derived store and calls nothing of the host.
DerivedListener(sub, v) == [sub |-> sub, dispatch |-> FALSE]

Listener(sub, v) ==
    IF sub.kind = "ref" THEN RefListener(sub, v)
    ELSE IF sub.kind = "eff" THEN EffListener(sub, v)
    ELSE DerivedListener(sub, v)

\* A collection of stores: an array or an object, with its entries in the
\* order of Object.entries (the keys of an array are "0", "1", ...).
ArrayKeys == <<"0", "1", "2">>

ArrayOf(seq) ==
    [isArray |-> TRUE, entries |-> [i \in DOMAIN seq |-> <<ArrayKeys[i], seq[i]>>]]

\* The stores a collection holds.
SourceStores(c) == {c.entries[i][2] : i \in DOMAIN c.entries}

\* The collection a derived store was made over.
SourcesOf(h, d) ==
    h.derived[CHOOSE k \in DOMAIN DerivedNames : DerivedNames[k] = d]

\* A derived value that follows a store at its first position only.
DerivedValueFirstPosition(c, vals) ==
    [isArray |-> c.isArray,
     entries |-> [i \in DOMAIN c.entries |->
                     <<c.entries[i][1],
                       IF \E j \in 1..(i - 1) : c.entries[j][2] = c.entries[i][2]
                       THEN 0 ELSE vals[c.entries[i][2]]>>]]

\* makeDerivedStore(stores, (x) => x) holds a collection of the shape of
\* stores with, at each key, the value of the store at that key.
DerivedValue(c, vals) ==
    [isArray |-> c.isArray,
     entries |-> [i \in DOMAIN c.entries |->
                     <<c.entries[i][1], vals[c.entries[i][2]]>>]]

\* What a store holds, once started.
Content(h, s, vals) ==
    IF s \in DerivedStores THEN DerivedValue(SourcesOf(h, s), vals) ELSE vals[s]

\* Registers a listener on s and calls it at once with the current value;
\* counts a run of the start handler for a first subscriber.
Register(h, s, kind, hook) ==
    LET fresh == [store |-> s, live |-> TRUE, kind |-> kind, hook |-> hook,
                  firstSubscriberCall |-> TRUE, wrappedValue |-> Undefined,
                  calls |-> 0]
        first == Listener(fresh, Content(h, s, value))
        sb == Append(h.subs, first.sub)
    IN  [heap |-> [h EXCEPT !.subs = sb,
                            !.init[s] = IF NOfSubscriptionsIn(h.subs, s) = 0
                                        THEN @ + 1 ELSE @,
                            !.peak = Max(@, LiveIn(sb))],
         id |-> Len(sb),
         dispatched |-> IF first.dispatch THEN <<Content(h, s, value)>> ELSE <<>>]

\* The start handler of a derived store d subscribes to its sources, in order.
RECURSIVE SubscribeSources(_, _, _)
SubscribeSources(h, d, n) ==
    IF n = 0 THEN h
    ELSE Register(SubscribeSources(h, d, n - 1),
                  SourcesOf(h, d).entries[n][2], "derived", d).heap

StartHandler(h, s) ==
    IF s \in DerivedStores /\ NOfSubscriptionsIn(h.subs, s) = 0
    THEN SubscribeSources(h, s, Len(SourcesOf(h, s).entries))
    ELSE h

\* The stop handler of a derived store d releases its subscriptions.
StopHandler(h, s) ==
    IF s \in DerivedStores /\ NOfSubscriptionsIn(h.subs, s) = 0
    THEN [h EXCEPT !.subs = [i \in DOMAIN h.subs |->
             IF h.subs[i].kind = "derived" /\ h.subs[i].hook = s /\ h.subs[i].live
             THEN [h.subs[i] EXCEPT !.live = FALSE, !.calls = @ + 1]
             ELSE h.subs[i]]]
    ELSE h

\* store.subscribe(listener): runs the start handler for a first subscriber,
\* registers the listener and calls it at once with the current value.
Subscribe(h, s, kind, hook) == Register(StartHandler(h, s), s, kind, hook)

\* A handle that removes every listener of the store, not only its own.
UnsubscribeEveryListener(h, i) ==
    [h EXCEPT !.subs = [j \in DOMAIN h.subs |->
        IF h.subs[j].store = h.subs[i].store /\ (h.subs[j].live \/ j = i)
        THEN [h.subs[j] EXCEPT !.live = FALSE, !.calls = @ + 1]
        ELSE h.subs[j]]]

\* The unsubscribe handle of subscription i: idempotent on the store; the
\* store stops when its last listener leaves.
Unsubscribe(h, i) ==
    LET left == [h EXCEPT !.subs[i].live = FALSE, !.subs[i].calls = @ + 1]
    IN  IF h.subs[i].live THEN StopHandler(left, h.subs[i].store) ELSE left

\* A store without subscribers runs its start handler for one read; for a
\* derived store that starts each source that has no subscriber.
StartedForRead(h, s) ==
    IF NOfSubscriptionsIn(h.subs, s) > 0 THEN {}
    ELSE IF s \in DerivedStores
    THEN {s} \cup {t \in SourceStores(SourcesOf(h, s)) :
                        NOfSubscriptionsIn(h.subs, t) = 0}
    ELSE {s}

\* The value getter, as the lazy-store test's mock counts it: a read, which on
\* a store without subscribers runs the start handler to obtain the value.
ValueRead(h, s) ==
    [h EXCEPT !.reads[s] = @ + 1,
              !.init = [t \in DOMAIN @ |->
                           IF t \in StartedForRead(h, s) THEN @[t] + 1 ELSE @[t]]]

\* ---------------------------------------------------- useReadonlyStore
\* Variants of the hook body: without the release of the previous
\* subscription, without the test of the store's identity, with a new
\* subscription on every render, and with the new subscription made before
\* the release of the previous one.
UseReadonlyStoreNoRelease(h, ref, store, hook) ==
    IF ref = 0 \/ h.subs[ref].store # store
    THEN LET s == Subscribe(h, store, "ref", hook)
         IN  [heap |-> s.heap, ref |-> s.id, dispatched |-> Len(s.dispatched)]
    ELSE [heap |-> h, ref |-> ref, dispatched |-> 0]

UseReadonlyStoreFirstOnly(h, ref, store, hook) ==
    IF ref = 0
    THEN LET s == Subscribe(h, store, "ref", hook)
         IN  [heap |-> s.heap, ref |-> s.id, dispatched |-> Len(s.dispatched)]
    ELSE [heap |-> h, ref |-> ref, dispatched |-> 0]

UseReadonlyStoreEveryRender(h, ref, store, hook) ==
    LET released == IF ref = 0 THEN h ELSE Unsubscribe(h, ref)
        s == Subscribe(released, store, "ref", hook)
    IN  [heap |-> s.heap, ref |-> s.id, dispatched |-> Len(s.dispatched)]

UseReadonlyStoreLateRelease(h, ref, store, hook) ==
    IF ref = 0 \/ h.subs[ref].store # store
    THEN LET s == Subscribe(h, store, "ref", hook)
             released == IF ref = 0 THEN s.heap ELSE Unsubscribe(s.heap, ref)
         IN  [heap |-> released, ref |-> s.id, dispatched |-> Len(s.dispatched)]
    ELSE [heap |-> h, ref |-> ref, dispatched |-> 0]

\* The body of the ref-based hook up to its return: re-subscribes when the
\* ref is empty or bound to another store.
UseReadonlyStore(h, ref, store, hook) ==
    IF ref = 0 \/ h.subs[ref].store # store
    THEN LET released == IF ref = 0 THEN h ELSE Unsubscribe(h, ref)
             s == Subscribe(released, store, "ref", hook)
         IN  [heap |-> s.heap, ref |-> s.id, dispatched |-> Len(s.dispatched)]
    ELSE [heap |-> h, ref |-> ref, dispatched |-> 0]

\* return contextRef.current.wrappedValue.value
Returned(r) == r.heap.subs[r.ref].wrappedValue

\* An updater that adds one and never wraps around.
RerenderFlagUpdaterNoWrap(r, m) == r + 1

\* The updater the listener hands to setRerenderFlag, (r) => (r + 1) % m,
\* where m is Number.MAX_SAFE_INTEGER in the hook.
RerenderFlagUpdater(r, m) == (r + 1) % m

\* setRerenderFlag((r) => (r + 1) % Number.MAX_SAFE_INTEGER), n times over
RECURSIVE Bump(_, _)
Bump(r, n) ==
    IF n = 0 THEN r
    ELSE Bump(RerenderFlagUpdater(r, MAX_SAFE_INTEGER), n - 1)

\* A cleanup that releases nothing.
CleanupNothing(h, ref) == h

\* The effect cleanup registered at mount: contextRef.current?.unsubscribe()
Cleanup(h, ref) == IF ref = 0 THEN h ELSE Unsubscribe(h, ref)

\* --------------------------------------------------- useReadonlyStores
\* previousContextRef.current is undefined before the first render.
NoContext == [stores |-> ArrayOf(<<>>), derived |-> "none"]

\* makeDerivedStore(stores, (x) => x): a new store, not started yet.
MakeDerivedStore(h, stores) ==
    [heap |-> [h EXCEPT !.derived = Append(@, stores)],
     store |-> DerivedNames[Len(h.derived) + 1]]

\* A comparison that never finds the stores unchanged.
StoresChangedAlways(prev, stores) == TRUE

\* !previousContext || previousContext.stores.length !== stores.length ||
\* previousContext.stores.some((s, i) => s !== stores[i])
StoresChanged(prev, stores) ==
    \/ prev.derived = "none"
    \/ Len(prev.stores.entries) # Len(stores.entries)
    \/ \E i \in DOMAIN prev.stores.entries :
           prev.stores.entries[i][2] # stores.entries[i][2]

\* The body of the ref-based useReadonlyStores: a derived store is made when
\* the comparison fails, then useReadonlyStore runs on the ref's derived store.
UseReadonlyStores(h, prev, ref, stores, hook) ==
    LET made == MakeDerivedStore(h, stores)
        ctx == IF StoresChanged(prev, stores)
               THEN [stores |-> stores, derived |-> made.store]
               ELSE prev
        r == UseReadonlyStore(IF StoresChanged(prev, stores) THEN made.heap ELSE h,
                              ref, ctx.derived, hook)
    IN  [heap |-> r.heap, ref |-> r.ref, dispatched |-> r.dispatched,
         context |-> ctx]

\* ------------------------------------------------------------ the host
SetHeap(h) ==
    /\ subs' = h.subs
    /\ initializations' = h.init
    /\ valueReads' = h.reads
    /\ peak' = h.peak

\* The counter scenario: mount on store A holding 0, then update(c => c + 1)
\* three times and set(0), each followed by its render.  script is the number
\* of scenario steps taken so far, or 0 once the run has left the scenario.
ScriptOff ==
    /\ script' = 0
    /\ renderedSeq' = <<>>

OnScript(s, isUpdate, arg) ==
    /\ s = "A"
    /\ \/ script \in {1, 3, 5} /\ isUpdate /\ arg = "inc"
       \/ script = 7 /\ ~isUpdate /\ arg = 0

ScriptMutation(s, isUpdate, arg) ==
    IF OnScript(s, isUpdate, arg)
    THEN script' = script + 1 /\ UNCHANGED renderedSeq
    ELSE ScriptOff

\* Mutations that reach a listener are explored up to MaxChanges of them; the
\* scenario run is explored to its end whatever the bound.
WithinBounds(s, isUpdate, arg) ==
    changes < MaxChanges \/ OnScript(s, isUpdate, arg)

ScriptFlush(out) ==
    IF script \in {2, 4, 6, 8}
    THEN script' = script + 1 /\ renderedSeq' = Append(renderedSeq, out)
    ELSE ScriptOff

\* What a mutation to v does once the store has decided to notify: every
\* registered listener of s is called with v, in the same synchronous turn.
Notified(s) == {i \in DOMAIN subs : subs[i].store = s /\ subs[i].live}

\* The derived stores that listen to s: each sets its new value in the same
\* turn, which calls its own listeners.
Fed(s) == {subs[i].hook : i \in {j \in Notified(s) : subs[j].kind = "derived"}}

Reached(s) ==
    Notified(s) \cup {i \in DOMAIN subs : subs[i].live /\ subs[i].store \in Fed(s)}

\* The value listener i is called with when s is set to v.
Received(i, s, v) == Content(Heap, subs[i].store, [value EXCEPT ![s] = v])

Deliver(s, v) ==
    LET called == {i \in Reached(s) :
                      Listener(subs[i], Received(i, s, v)).dispatch}
        flags == Cardinality({i \in called :
                     subs[i].kind = "ref" /\ subs[i].hook = "committed"})
        effs == {i \in called : subs[i].kind = "eff"}
        stale == \E i \in called : subs[i].hook = "discarded"
    IN  /\ subs' = [i \in DOMAIN subs |->
                       IF i \in Reached(s)
                       THEN Listener(subs[i], Received(i, s, v)).sub
                       ELSE subs[i]]
        /\ triggers' = triggers + flags
        /\ pendingFlag' = IF phase = "mounted" THEN pendingFlag + flags
                          ELSE pendingFlag
        /\ pendingContext' =
               IF phase = "mounted" /\ effs # {}
               THEN Append(pendingContext,
                           Received(CHOOSE i \in effs : TRUE, s, v))
               ELSE pendingContext
        /\ staleScheduled' = (staleScheduled \/ (phase = "mounted" /\ stale))

\* s is the store the hook is bound to, or a source of it.
Feeds(s) ==
    \/ s = propStore
    \/ /\ propStore \in DerivedStores
       /\ s \in SourceStores(SourcesOf(Heap, propStore))

\* set(v) of a mutable store: nothing happens when v equals the current value.
SetValue(s, v) ==
    /\ IF Equal(s, value[s], v)
       THEN UNCHANGED <<value, subs, triggers, pendingFlag, pendingContext,
                        staleScheduled, changes>>
       ELSE /\ value' = [value EXCEPT ![s] = v]
            /\ changes' = IF phase = "mounted" /\ Feeds(s)
                          THEN changes + 1 ELSE changes
            /\ Deliver(s, v)
    /\ UNCHANGED <<initializations, valueReads, peak, contextRef, rerenderFlag,
                   context, effectSub, hostVars>>

Idle == phase \in {"unmounted", "mounted", "destroyed"}

\* External code calls store.set(v).
StoreSet(s, v) ==
    /\ Idle
    /\ WithinBounds(s, FALSE, v)
    /\ SetValue(s, v)
    /\ ScriptMutation(s, FALSE, v)

\* External code calls store.update(f): set(f(current)).
StoreUpdate(s, f) ==
    /\ Idle
    /\ WithinBounds(s, TRUE, f)
    /\ Apply(f, value[s]) \in Values
    /\ SetValue(s, Apply(f, value[s]))
    /\ ScriptMutation(s, TRUE, f)

\* One invocation of the component body and its commit, for a mounted
\* instance: the queued state updates are applied, the hook runs, its return
\* value is rendered.
RenderPass(s) ==
    LET r == UseReadonlyStore(Heap, contextRef, s, "committed")
    IN  /\ SetHeap(r.heap)
        /\ contextRef' = r.ref
        /\ rerenderFlag' = Bump(rerenderFlag, pendingFlag)
        /\ pendingFlag' = r.dispatched
        /\ triggers' = triggers + r.dispatched
        /\ staleScheduled' = FALSE
        /\ rendered' = Returned(r)
        /\ propStore' = s

\* root.render(<Component store$={s} />) on an empty root, and the flush.
Mount(s) ==
    /\ phase = "unmounted"
    /\ phase' = "mounted"
    /\ RenderPass(s)
    /\ IF s = "A" /\ value[s] = 0
       THEN script' = 1 /\ renderedSeq' = <<rendered'>>
       ELSE ScriptOff
    /\ UNCHANGED <<value, effVars, changes>>

\* The parent renders the component again, with the same or another store.
Rerender(s) ==
    /\ phase = "mounted"
    /\ s # propStore => Len(subs) < MaxSubscriptions
    /\ RenderPass(s)
    /\ ScriptOff
    /\ UNCHANGED <<value, effVars, phase, changes>>

\* The render the host runs because setRerenderFlag changed the state.
FlushRender ==
    /\ phase = "mounted"
    /\ pendingFlag > 0
    /\ RenderPass(propStore)
    /\ ScriptFlush(rendered')
    /\ UNCHANGED <<value, effVars, phase, changes, bridgeVars>>

\* The component is removed: the mount effect's cleanup runs.
Unmount ==
    /\ phase = "mounted"
    /\ phase' = "destroyed"
    /\ SetHeap(Cleanup(Heap, contextRef))
    /\ pendingFlag' = 0
    /\ staleScheduled' = FALSE
    /\ ScriptOff
    /\ UNCHANGED <<value, contextRef, rerenderFlag, effVars, propStore,
                   rendered, triggers, changes, bridgeVars>>

\* -------------------------------------------------------- specifications
\* Nothing is rendered and the stores hold their initial values.
InitHooks ==
    /\ value = [s \in AllStores |-> 0]
    /\ subs = <<>>
    /\ initializations = [s \in AllStores \cup DerivedStores |-> 0]
    /\ valueReads = [s \in AllStores \cup DerivedStores |-> 0]
    /\ peak = 0
    /\ phase = "unmounted"
    /\ propStore = "none"
    /\ contextRef = 0
    /\ rerenderFlag = 0
    /\ pendingFlag = 0
    /\ staleScheduled = FALSE
    /\ context = Undefined
    /\ pendingContext = <<>>
    /\ effectSub = 0
    /\ rendered = Undefined
    /\ triggers = 0
    /\ changes = 0
    /\ script = 0
    /\ renderedSeq = <<>>
    /\ setter = [deps |-> "none", fn |-> 0]
    /\ storeCalls = <<>>
    /\ keptSetter = [deps |-> "none", fn |-> 0, obtainedFor |-> "none"]
    /\ derivedStores = <<>>
    /\ propStores = ArrayOf(<<>>)
    /\ previousContextRef = NoContext
    /\ storesContext = NoContext
    /\ pendingStoresContext = <<>>
    /\ peers = [p \in Instances |->
                  [phase |-> "unmounted", propStore |-> "none", contextRef |-> 0,
                   rerenderFlag |-> 0, pendingFlag |-> 0, rendered |-> Undefined]]
    /\ renders = 0
    /\ children = [component |-> "none", parentRenders |-> 0,
                   childrenRenders |-> 0, args |-> <<>>]

Init ==
    /\ InitHooks
    /\ renderTrigger = [modulus |-> MAX_SAFE_INTEGER, flag |-> 0, before |-> Undefined]

Set == \E s \in Stores, v \in Values : StoreSet(s, v) /\ UNCHANGED bridgeVars
Update == \E s \in Stores, f \in Updaters : StoreUpdate(s, f) /\ UNCHANGED bridgeVars
MountAny == \E s \in Stores : Mount(s) /\ UNCHANGED bridgeVars
RerenderAny == \E s \in Stores : Rerender(s) /\ UNCHANGED bridgeVars

\* The ref-based hook in the normal lifecycle.
Next ==
    \/ MountAny
    \/ RerenderAny
    \/ FlushRender
    \/ Unmount
    \/ Set
    \/ Update

Spec == Init /\ [][Next]_vars

\* The host runs a scheduled render: it is never postponed for ever.
SpecLive == Spec /\ WF_vars(FlushRender)


\* --------------------------------------------------------------- useStore
\* What the setter can be called with: a function (an updater) or a value.
SetterArgs ==
    {[isFunction |-> TRUE, f |-> u, v |-> 0] : u \in Updaters}
        \cup {[isFunction |-> FALSE, f |-> "none", v |-> x] : x \in Values}

\* Variants: a setter that always calls set, a callback that is never
\* memoized, and one that is memoized once and for all.
SetterSetOnly(store, arg) == <<[op |-> "set", store |-> store, arg |-> arg]>>

UseCallbackNoDeps(slot, store) == [deps |-> store, fn |-> slot.fn + 1]

UseCallbackOnce(slot, store) ==
    IF slot.fn = 0 THEN [deps |-> store, fn |-> 1] ELSE slot

\* The function useStore memoizes, closed over store: the store methods it
\* calls for one argument, in order.
Setter(store, arg) ==
    IF arg.isFunction
    THEN <<[op |-> "update", store |-> store, arg |-> arg]>>
    ELSE <<[op |-> "set", store |-> store, arg |-> arg]>>

\* useCallback(fn, [store]): the memoized function is kept while the deps are
\* the same store; otherwise this render's function, which no earlier render
\* returned, takes its place.
UseCallback(slot, store) ==
    IF slot.deps = store THEN slot ELSE [deps |-> store, fn |-> slot.fn + 1]

\* useStore(s) on mount: useReadonlyStore(s), then useCallback.
UseStoreMount(s) ==
    /\ Mount(s)
    /\ setter' = UseCallback(setter, s)
    /\ UNCHANGED <<storeCalls, keptSetter, storesVars, peers, renders, children, renderTrigger>>

\* useStore(s) when the parent renders the component again.
UseStoreRerender(s) ==
    /\ Rerender(s)
    /\ setter' = UseCallback(setter, s)
    /\ UNCHANGED <<storeCalls, keptSetter, storesVars, peers, renders, children, renderTrigger>>

\* One store method call made by the setter.
StoreCall(c) ==
    IF c.op = "update" THEN StoreUpdate(c.store, c.arg.f)
    ELSE StoreSet(c.store, c.arg.v)

\* The component calls the setter its latest render returned.
SetterCall(arg) ==
    /\ phase = "mounted"
    /\ storeCalls' = Setter(setter.deps, arg)
    /\ StoreCall(storeCalls'[1])
    /\ UNCHANGED <<setter, keptSetter, storesVars, peers, renders, children, renderTrigger>>

UseStoreMountAny == \E s \in Stores : UseStoreMount(s)
UseStoreRerenderAny == \E s \in Stores : UseStoreRerender(s)
SetterCallAny == \E arg \in SetterArgs : SetterCall(arg)

NextUseStore ==
    \/ UseStoreMountAny
    \/ UseStoreRerenderAny
    \/ FlushRender
    \/ Unmount
    \/ SetterCallAny

SpecUseStore == Init /\ [][NextUseStore]_vars

\* A setter that looks up the store of the latest render when it is called.
SetterStoreLatest(fn) == propStore

\* The store a memoized setter is closed over: the store of the render that
\* created it, which is the dependency useCallback recorded for it.
SetterStore(fn) == fn.deps

\* The component hands the setter of its latest render to other code (an
\* event handler, a timer), which keeps it.
KeepSetter ==
    /\ phase = "mounted"
    /\ keptSetter' = [deps |-> setter.deps, fn |-> setter.fn,
                      obtainedFor |-> propStore]
    /\ UNCHANGED <<storeVars, refVars, effVars, hostVars, obsVars, setter,
                   storeCalls, storesVars, peers, renders, children, renderTrigger>>

\* That code calls the setter it kept, whatever the component has become
\* since: re-rendered with another store, or unmounted.
KeptSetterCall(arg) ==
    /\ keptSetter.fn # 0
    /\ storeCalls' = Setter(SetterStore(keptSetter), arg)
    /\ StoreCall(storeCalls'[1])
    /\ UNCHANGED <<setter, keptSetter, storesVars, peers, renders, children, renderTrigger>>

KeptSetterCallAny == \E arg \in SetterArgs : KeptSetterCall(arg)

NextKeptSetter ==
    \/ UseStoreMountAny
    \/ UseStoreRerenderAny
    \/ FlushRender
    \/ Unmount
    \/ SetterCallAny
    \/ KeepSetter
    \/ KeptSetterCallAny

SpecKeptSetter == Init /\ [][NextKeptSetter]_vars

\* ------------------------------------------- useReadonlyStores, ref-based
\* The arrays of stores the tests pass: none, two, the two in the other
\* order, and a third store alone.
Arrays == {ArrayOf(q) : q \in {<<>>, <<"A", "B">>, <<"B", "A">>, <<"C">>}}

\* One invocation of the component body and its commit.
StoresRenderPass(c) ==
    LET r == UseReadonlyStores(Heap, previousContextRef, contextRef, c, "committed")
    IN  /\ SetHeap(r.heap)
        /\ derivedStores' = r.heap.derived
        /\ previousContextRef' = r.context
        /\ contextRef' = r.ref
        /\ rerenderFlag' = Bump(rerenderFlag, pendingFlag)
        /\ pendingFlag' = r.dispatched
        /\ triggers' = triggers + r.dispatched
        /\ staleScheduled' = FALSE
        /\ rendered' = Returned(r)
        /\ propStore' = r.context.derived
        /\ propStores' = c
        /\ UNCHANGED <<storesContext, pendingStoresContext>>

\* root.render(<ToJSON stores={c} />) on an empty root, and the flush.
StoresMount(c) ==
    /\ phase = "unmounted"
    /\ phase' = "mounted"
    /\ StoresRenderPass(c)
    /\ ScriptOff
    /\ UNCHANGED <<value, effVars, changes, writeVars, peers, renders, children, renderTrigger>>

\* The parent renders the component again, with the same or other stores.
StoresRerender(c) ==
    /\ phase = "mounted"
    /\ StoresChanged(previousContextRef, c) =>
           Len(derivedStores) < MaxSubscriptions
    /\ StoresRenderPass(c)
    /\ ScriptOff
    /\ UNCHANGED <<value, effVars, phase, changes, writeVars, peers, renders, children, renderTrigger>>

\* The render the host runs because setRerenderFlag changed the state.
StoresFlushRender ==
    /\ phase = "mounted"
    /\ pendingFlag > 0
    /\ StoresRenderPass(propStores)
    /\ ScriptOff
    /\ UNCHANGED <<value, effVars, phase, changes, writeVars, peers, renders, children, renderTrigger>>

StoresMountAny == \E c \in Arrays : StoresMount(c)
StoresRerenderAny == \E c \in Arrays : StoresRerender(c)
\* External code mutates a store the mounted component reads.
SetAny ==
    \E s \in AllStores, v \in Values :
        phase = "mounted" /\ Feeds(s) /\ StoreSet(s, v) /\ UNCHANGED bridgeVars
UpdateAny ==
    \E s \in AllStores, f \in Updaters :
        phase = "mounted" /\ Feeds(s) /\ StoreUpdate(s, f) /\ UNCHANGED bridgeVars

NextStores ==
    \/ StoresMountAny
    \/ StoresRerenderAny
    \/ StoresFlushRender
    \/ Unmount
    \/ SetAny
    \/ UpdateAny

SpecStores == Init /\ [][NextStores]_vars

\* ------------------------------------- a store that changes on every render
\* The parent renders the component again and passes a store that is not the
\* one it passed to the previous render.
RerenderChanged(s) ==
    /\ phase = "mounted"
    /\ s # propStore
    /\ Len(subs) <= MaxStoreChanges
    /\ RenderPass(s)
    /\ ScriptOff
    /\ UNCHANGED <<value, effVars, phase, changes, bridgeVars>>

RerenderChangedAny == \E s \in Stores : RerenderChanged(s)

NextChangingStore ==
    \/ MountAny
    \/ RerenderChangedAny
    \/ FlushRender
    \/ Unmount
    \/ SetAny
    \/ UpdateAny

SpecChangingStore == Init /\ [][NextChangingStore]_vars

\* ------------------------------------------ several instances, one store
\* Each instance runs useReadonlyStore on its own hooks; hook names the
\* instance a subscription belongs to.

\* One invocation of the body of instance p and its commit.
PeerRenderPass(p, s) ==
    LET r == UseReadonlyStore(Heap, peers[p].contextRef, s, p)
    IN  /\ SetHeap(r.heap)
        /\ peers' = [peers EXCEPT ![p] =
               [phase |-> "mounted", propStore |-> s, contextRef |-> r.ref,
                rerenderFlag |-> Bump(@.rerenderFlag, @.pendingFlag),
                pendingFlag |-> r.dispatched,
                rendered |-> Returned(r)]]
        /\ UNCHANGED <<value, refVars, effVars, hostVars, obsVars, writeVars,
                       storesVars, renders, children, renderTrigger>>

\* Instance p is rendered for the first time.  The instances are
\* interchangeable: "i1" is the one that is rendered first.
PeerMount(p, s) ==
    /\ peers[p].phase = "unmounted"
    /\ p = "i2" => peers["i1"].phase # "unmounted"
    /\ Len(subs) <= MaxSubscriptions
    /\ PeerRenderPass(p, s)

\* The parent renders instance p again, with the same or another store.
PeerRerender(p, s) ==
    /\ peers[p].phase = "mounted"
    /\ s # peers[p].propStore => Len(subs) <= MaxSubscriptions
    /\ PeerRenderPass(p, s)

\* The render the host runs because instance p called setRerenderFlag.
PeerFlushRender(p) ==
    /\ peers[p].phase = "mounted"
    /\ peers[p].pendingFlag > 0
    /\ PeerRenderPass(p, peers[p].propStore)

\* Instance p is removed: the cleanup of its mount effect runs.
PeerUnmount(p) ==
    /\ peers[p].phase = "mounted"
    /\ SetHeap(Cleanup(Heap, peers[p].contextRef))
    /\ peers' = [peers EXCEPT ![p].phase = "destroyed", ![p].pendingFlag = 0]
    /\ UNCHANGED <<value, refVars, effVars, hostVars, obsVars, writeVars,
                   storesVars, renders, children, renderTrigger>>

\* The setRerenderFlag calls instance p makes when s delivers v.
PeerDispatches(p, s, v) ==
    Cardinality({i \in Notified(s) :
                     subs[i].hook = p /\ Listener(subs[i], v).dispatch})

\* What a delivery of v by s does to the instances: each queues one state
\* update per call of its setRerenderFlag.
PeersNotified(s, v) ==
    [p \in Instances |->
        IF peers[p].phase = "mounted"
        THEN [peers[p] EXCEPT !.pendingFlag = @ + PeerDispatches(p, s, v)]
        ELSE peers[p]]

\* Mutations are explored while no instance has seen MaxChanges of them.
PeersWithinBounds ==
    \A p \in Instances : peers[p].rerenderFlag + peers[p].pendingFlag < MaxChanges

\* External code calls update(f) of a store some instance is bound to.
SharedUpdate(s, f) ==
    /\ nOfSubscriptions(s) > 0
    /\ PeersWithinBounds
    /\ StoreUpdate(s, f)
    /\ peers' = IF Equal(s, value[s], Apply(f, value[s])) THEN peers
                ELSE PeersNotified(s, Apply(f, value[s]))
    /\ UNCHANGED <<writeVars, storesVars, renders, children, renderTrigger>>

PeerMountAny == \E p \in Instances, s \in Stores : PeerMount(p, s)
PeerRerenderAny == \E p \in Instances, s \in Stores : PeerRerender(p, s)
PeerFlushRenderAny == \E p \in Instances : PeerFlushRender(p)
PeerUnmountAny == \E p \in Instances : PeerUnmount(p)
SharedUpdateAny == \E s \in Stores, f \in Updaters : SharedUpdate(s, f)

NextShared ==
    \/ PeerMountAny
    \/ PeerRerenderAny
    \/ PeerFlushRenderAny
    \/ PeerUnmountAny
    \/ SharedUpdateAny

SpecShared == Init /\ [][NextShared]_vars

\* ------------------------------------------------ strict mode, ref-based
\* Under <StrictMode> the host invokes the component body twice per render
\* pass.  On mount the hook state of the first invocation is thrown away and
\* the second starts from empty hooks; on update both invocations work on the
\* instance's hooks.  After the first commit the host runs every effect, its
\* cleanup, and the effect again.

\* First invocation of the body on mount: its ref and its state are dropped.
StrictAttempt(s) ==
    /\ phase = "unmounted"
    /\ phase' = "attempt"
    /\ propStore' = s
    /\ SetHeap(UseReadonlyStore(Heap, 0, s, "discarded").heap)
    /\ ScriptOff
    /\ UNCHANGED <<value, refVars, effVars, rendered, triggers, changes,
                   bridgeVars>>

\* Second invocation of the body on mount, and the commit of its output.
StrictRetry ==
    /\ phase = "attempt"
    /\ phase' = "committed"
    /\ RenderPass(propStore)
    /\ UNCHANGED <<value, effVars, changes, script, renderedSeq, bridgeVars>>

\* The mount effect runs, its cleanup runs, the effect runs again.
StrictEffects ==
    /\ phase = "committed"
    /\ phase' = "mounted"
    /\ SetHeap(Cleanup(Heap, contextRef))
    /\ UNCHANGED <<value, refVars, effVars, propStore, rendered, obsVars,
                   bridgeVars>>

\* A render pass of the mounted instance: two invocations on the same hooks.
StrictRenderPass(s) ==
    LET r1 == UseReadonlyStore(Heap, contextRef, s, "committed")
        r2 == UseReadonlyStore(r1.heap, r1.ref, s, "committed")
    IN  /\ SetHeap(r2.heap)
        /\ contextRef' = r2.ref
        /\ rerenderFlag' = Bump(rerenderFlag, pendingFlag)
        /\ pendingFlag' = r1.dispatched + r2.dispatched
        /\ triggers' = triggers + r1.dispatched + r2.dispatched
        /\ staleScheduled' = FALSE
        /\ rendered' = Returned(r2)
        /\ propStore' = s

StrictRerender(s) ==
    /\ phase = "mounted"
    /\ s # propStore => Len(subs) <= MaxSubscriptions
    /\ StrictRenderPass(s)
    /\ UNCHANGED <<value, effVars, phase, changes, script, renderedSeq,
                   bridgeVars>>

\* The render the host runs because a dispatcher of this component was
\* called: setRerenderFlag of the instance, or of the discarded attempt.
StrictFlushRender ==
    /\ phase = "mounted"
    /\ pendingFlag > 0 \/ staleScheduled
    /\ StrictRenderPass(propStore)
    /\ UNCHANGED <<value, effVars, phase, changes, script, renderedSeq,
                   bridgeVars>>

StrictAttemptAny == \E s \in Stores : StrictAttempt(s)
StrictRerenderAny == \E s \in Stores : StrictRerender(s)

NextStrict ==
    \/ StrictAttemptAny
    \/ StrictRetry
    \/ StrictEffects
    \/ StrictRerenderAny
    \/ StrictFlushRender
    \/ Unmount
    \/ Set
    \/ Update

SpecStrict == Init /\ [][NextStrict]_vars

\* ---------------------------------------------- strict mode, effect-based
\* The effect-based useReadonlyStore: the value is read from the store by the
\* useState initializer, the subscription is made by an effect keyed on the
\* store, and the listener stores each delivery with setContext.

\* An effect that forgets to return its unsubscribe: nothing to call.
EffectCleanupNothing(h, sub) == h

\* The cleanup the effect returned: the unsubscribe of its subscription.
EffectCleanup(h, sub) == IF sub = 0 THEN h ELSE Unsubscribe(h, sub)

\* The effect body: store.subscribe((value) => setContext({value})).
EffectRun(h, s) == Subscribe(h, s, "eff", "committed")

\* First invocation of the body on mount: the initializer reads the store,
\* and the state it produced is thrown away.
EffAttempt(s) ==
    /\ phase = "unmounted"
    /\ phase' = "attempt"
    /\ propStore' = s
    /\ SetHeap(ValueRead(Heap, s))
    /\ ScriptOff
    /\ UNCHANGED <<value, refVars, effVars, rendered, triggers, changes,
                   bridgeVars>>

\* Second invocation on mount: the initializer reads the store again, the
\* body returns context.value and the output is committed.
EffRetry ==
    /\ phase = "attempt"
    /\ phase' = "committed"
    /\ SetHeap(ValueRead(Heap, propStore))
    /\ context' = value[propStore]
    /\ rendered' = value[propStore]
    /\ UNCHANGED <<value, refVars, pendingContext, effectSub, propStore, obsVars,
                   bridgeVars>>

\* The effects of a commit.  After the first commit: effect, cleanup, effect
\* again.  After a commit whose store differs from the subscribed one: the
\* previous cleanup, then the effect.  Otherwise nothing runs.
EffEffects ==
    /\ phase = "committed"
    /\ phase' = "mounted"
    /\ IF effectSub = 0
       THEN LET e1 == EffectRun(Heap, propStore)
                c1 == EffectCleanup(e1.heap, e1.id)
                e2 == EffectRun(c1, propStore)
            IN  /\ SetHeap(e2.heap)
                /\ effectSub' = e2.id
                /\ pendingContext' = pendingContext \o e1.dispatched \o e2.dispatched
       ELSE IF subs[effectSub].store # propStore
       THEN LET c == EffectCleanup(Heap, effectSub)
                e == EffectRun(c, propStore)
            IN  /\ SetHeap(e.heap)
                /\ effectSub' = e.id
                /\ pendingContext' = pendingContext \o e.dispatched
       ELSE UNCHANGED <<subs, initializations, valueReads, peak, effectSub,
                        pendingContext>>
    /\ UNCHANGED <<value, refVars, context, propStore, rendered, obsVars,
                   bridgeVars>>

\* A render pass of the mounted instance (both invocations compute the same
\* state): the queued setContext values are applied, the last one wins, and
\* the output is committed.
EffRenderPass(s) ==
    /\ context' = IF pendingContext = <<>> THEN context
                  ELSE pendingContext[Len(pendingContext)]
    /\ pendingContext' = <<>>
    /\ rendered' = context'
    /\ propStore' = s
    /\ phase' = "committed"
    /\ UNCHANGED <<storeVars, refVars, effectSub, obsVars, bridgeVars>>

\* The parent renders the component again, with the same or another store.
EffRerender(s) ==
    /\ phase = "mounted"
    /\ s # propStore => Len(subs) <= MaxSubscriptions
    /\ EffRenderPass(s)

\* The render the host runs because setContext was called.
EffFlushRender ==
    /\ phase = "mounted"
    /\ pendingContext # <<>>
    /\ EffRenderPass(propStore)

\* The component is removed: the effect's cleanup runs.
EffUnmount ==
    /\ phase = "mounted"
    /\ phase' = "destroyed"
    /\ SetHeap(EffectCleanup(Heap, effectSub))
    /\ pendingContext' = <<>>
    /\ UNCHANGED <<value, refVars, context, effectSub, propStore, rendered,
                   obsVars, bridgeVars>>

EffAttemptAny == \E s \in Stores : EffAttempt(s)
EffRerenderAny == \E s \in Stores : EffRerender(s)

NextEffStrict ==
    \/ EffAttemptAny
    \/ EffRetry
    \/ EffEffects
    \/ EffRerenderAny
    \/ EffFlushRender
    \/ EffUnmount
    \/ Set
    \/ Update

SpecEffStrict == Init /\ [][NextEffStrict]_vars

\* ---------------------------------------- useReadonlyStores, effect-based
\* An object of stores, with its entries in the order of Object.entries.
ObjectOf(entries) == [isArray |-> FALSE, entries |-> entries]

\* The collections the tests pass, and an object whose keys are the indices
\* of an array.
Collections ==
    {ArrayOf(<<>>), ArrayOf(<<"A", "B">>), ArrayOf(<<"B", "A">>),
     ObjectOf(<<>>),
     ObjectOf(<<<<"v1", "A">>, <<"v2", "B">>>>),
     ObjectOf(<<<<"0", "A">>, <<"1", "B">>>>)}

\* stores[key]: undefined when stores has no such key.
StoreAt(stores, key) ==
    IF \E j \in DOMAIN stores.entries : stores.entries[j][1] = key
    THEN stores.entries[CHOOSE j \in DOMAIN stores.entries :
                            stores.entries[j][1] = key][2]
    ELSE "undefined"

\* A comparison of the lengths only.
EntriesChangedLengthOnly(current, stores) ==
    Len(current.entries) # Len(stores.entries)

\* currentEntries.length !== newEntries.length ||
\* currentEntries.some((s) => s[1] !== stores[s[0]])
EntriesChanged(current, stores) ==
    \/ Len(current.entries) # Len(stores.entries)
    \/ \E i \in DOMAIN current.entries :
           current.entries[i][2] # StoreAt(stores, current.entries[i][1])

\* The state a render works on: the latest queued update, if any.
Latest(pending, slot) ==
    IF pending = <<>> THEN slot ELSE pending[Len(pending)]

\* First invocation of the body: both useState initializers run, the first
\* makes the derived store, the second reads its content.
EffStoresMount(c) ==
    LET made == MakeDerivedStore(Heap, c)
        read == ValueRead(made.heap, made.store)
    IN  /\ phase = "unmounted"
        /\ phase' = "committed"
        /\ storesContext' = [stores |-> c, derived |-> made.store]
        /\ context' = Content(read, made.store, value)
        /\ rendered' = context'
        /\ propStores' = c
        /\ propStore' = made.store
        /\ SetHeap(read)
        /\ derivedStores' = read.derived
        /\ ScriptOff
        /\ UNCHANGED <<value, refVars, pendingContext, effectSub, triggers,
                       changes, writeVars, peers, renders, children, renderTrigger, previousContextRef,
                       pendingStoresContext>>

\* The effects of a commit: the cleanup of the subscription when the derived
\* store of this render is not the subscribed one, the comparison of the
\* stores, and the subscription to the derived store of this render.
EffStoresEffects ==
    LET bound == storesContext.derived
        resub == effectSub = 0 \/ subs[effectSub].store # bound
        cleaned == IF resub THEN EffectCleanup(Heap, effectSub) ELSE Heap
        changed == EntriesChanged(storesContext.stores, propStores)
        made == MakeDerivedStore(cleaned, propStores)
        compared == IF changed THEN made.heap ELSE cleaned
        e == EffectRun(compared, bound)
    IN  /\ phase = "committed"
        /\ storesContext # NoContext
        /\ phase' = "mounted"
        /\ SetHeap(IF resub THEN e.heap ELSE compared)
        /\ derivedStores' = compared.derived
        /\ pendingStoresContext' =
               IF changed
               THEN Append(pendingStoresContext,
                           [stores |-> propStores, derived |-> made.store])
               ELSE pendingStoresContext
        /\ effectSub' = IF resub THEN e.id ELSE effectSub
        /\ pendingContext' =
               IF resub THEN pendingContext \o e.dispatched ELSE pendingContext
        /\ UNCHANGED <<value, refVars, context, propStore, rendered, obsVars,
                       writeVars, peers, renders, children, renderTrigger, propStores, previousContextRef,
                       storesContext>>

\* A render pass of the mounted instance: the queued updates are applied and
\* the body returns context.value of useReadonlyStore.
EffStoresRenderPass(c) ==
    /\ storesContext' = Latest(pendingStoresContext, storesContext)
    /\ pendingStoresContext' = <<>>
    /\ context' = Latest(pendingContext, context)
    /\ pendingContext' = <<>>
    /\ rendered' = context'
    /\ propStores' = c
    /\ propStore' = storesContext'.derived
    /\ phase' = "committed"
    /\ UNCHANGED <<storeVars, refVars, effectSub, obsVars, writeVars, peers, renders, children, renderTrigger,
                   derivedStores, previousContextRef>>

\* The parent renders the component again, with the same or other stores.
EffStoresRerender(c) ==
    /\ phase = "mounted"
    /\ EntriesChanged(Latest(pendingStoresContext, storesContext).stores, c) =>
           Len(derivedStores) < MaxSubscriptions
    /\ EffStoresRenderPass(c)

\* The render the host runs because a setContext was called.
EffStoresFlushRender ==
    /\ phase = "mounted"
    /\ pendingContext # <<>> \/ pendingStoresContext # <<>>
    /\ EffStoresRenderPass(propStores)

EffStoresMountAny == \E c \in Collections : EffStoresMount(c)
EffStoresRerenderAny == \E c \in Collections : EffStoresRerender(c)

\* External code mutates a store the mounted component reads, once the host
\* has rendered the value of the previous mutation.
EffStoresSet == pendingContext = <<>> /\ SetAny
EffStoresUpdate == pendingContext = <<>> /\ UpdateAny

NextEffStores ==
    \/ EffStoresMountAny
    \/ EffStoresEffects
    \/ EffStoresRerenderAny
    \/ EffStoresFlushRender
    \/ EffUnmount
    \/ EffStoresSet
    \/ EffStoresUpdate

SpecEffStores == Init /\ [][NextEffStores]_vars

\* ------------------------------------ a store at more than one position
\* Collections that hold store A twice, for a component that uses either
\* version of useReadonlyStores: the ref-based one takes arrays, the
\* effect-based one arrays and objects.
DupArrays == {ArrayOf(<<"A", "A">>), ArrayOf(<<"A", "B">>)}

DupCollections ==
    DupArrays \cup {ObjectOf(<<<<"v1", "A">>, <<"v2", "A">>>>)}

\* The mounted component uses the ref-based hook, or the effect-based one.
RefBased == contextRef # 0
EffBased == storesContext # NoContext

DupRefMount == \E c \in DupArrays : StoresMount(c)
DupRefRerender == RefBased /\ \E c \in DupArrays : StoresRerender(c)
DupRefFlushRender == RefBased /\ StoresFlushRender
DupRefUnmount == RefBased /\ Unmount
DupEffMount == \E c \in DupCollections : EffStoresMount(c)
DupEffRerender == EffBased /\ \E c \in DupCollections : EffStoresRerender(c)
DupEffFlushRender == EffBased /\ EffStoresFlushRender
DupEffUnmount == EffBased /\ EffUnmount

NextDuplicates ==
    \/ DupRefMount
    \/ DupRefRerender
    \/ DupRefFlushRender
    \/ DupRefUnmount
    \/ DupEffMount
    \/ EffStoresEffects
    \/ DupEffRerender
    \/ DupEffFlushRender
    \/ DupEffUnmount
    \/ EffStoresSet
    \/ EffStoresUpdate

SpecDuplicates == Init /\ [][NextDuplicates]_vars

\* --------------------------------------- useReadonlyStore, effect-based
\* The effect-based useReadonlyStore outside <StrictMode>: one invocation of
\* the body per render, one run of the effect per commit that changed its deps.

\* root.render(<ToJSON store$={s} />) on an empty root: the useState
\* initializer reads the store, the body returns context.value.
EffMount(s) ==
    /\ phase = "unmounted"
    /\ phase' = "committed"
    /\ propStore' = s
    /\ SetHeap(ValueRead(Heap, s))
    /\ context' = value[s]
    /\ rendered' = value[s]
    /\ renders' = 1
    /\ ScriptOff
    /\ UNCHANGED <<value, refVars, pendingContext, effectSub, triggers, changes,
                   writeVars, storesVars, peers, children, renderTrigger>>

\* The effects of a commit: on the first commit the effect subscribes; the
\* store of this component never changes, so no later commit runs it again.
EffEffectsOnce ==
    LET e == EffectRun(Heap, propStore)
    IN  /\ phase = "committed"
        /\ phase' = "mounted"
        /\ IF effectSub = 0
           THEN /\ SetHeap(e.heap)
                /\ effectSub' = e.id
                /\ pendingContext' = pendingContext \o e.dispatched
           ELSE UNCHANGED <<subs, initializations, valueReads, peak, effectSub,
                            pendingContext>>
        /\ UNCHANGED <<value, refVars, context, propStore, rendered, obsVars,
                       bridgeVars>>

\* The render the host runs because setContext was called: the last queued
\* value becomes the state and the body returns it.
EffCommitRender ==
    /\ phase = "mounted"
    /\ pendingContext # <<>>
    /\ phase' = "committed"
    /\ context' = Latest(pendingContext, context)
    /\ pendingContext' = <<>>
    /\ rendered' = context'
    /\ renders' = renders + 1
    /\ UNCHANGED <<storeVars, refVars, effectSub, propStore, obsVars, writeVars,
                   storesVars, peers, children, renderTrigger>>

\* External code mutates a store inside act(): the host has rendered the
\* previous mutation before the next one is made.
EffSet == pendingContext = <<>> /\ Set
EffUpdate == pendingContext = <<>> /\ Update

EffMountAny == \E s \in Stores : EffMount(s)

NextEff ==
    \/ EffMountAny
    \/ EffEffectsOnce
    \/ EffCommitRender
    \/ EffUnmount
    \/ EffSet
    \/ EffUpdate

SpecEff == Init /\ [][NextEff]_vars

\* ------------------------- useReadonlyStore, effect-based, a changing prop
\* The effects of a commit outside <StrictMode>: the effect runs after the
\* first commit and after every commit whose store differs from the one
\* subscribed to, its previous cleanup first.
EffDepsEffects == IF effectSub = 0 THEN EffEffectsOnce ELSE EffEffects

NextEffProp ==
    \/ EffMountAny
    \/ EffDepsEffects
    \/ EffRerenderAny
    \/ EffFlushRender
    \/ EffUnmount
    \/ EffSet
    \/ EffUpdate

SpecEffProp == Init /\ [][NextEffProp]_vars

\* ------------------ useReadonlyStore, effect-based, a new store per render
\* The component makes the store in its body, so every invocation of the
\* body, also the one the host runs because setContext was called, passes the
\* hook a store that is not the one of the render before.
EffNewStoreRender ==
    /\ pendingContext # <<>>
    /\ \E s \in Stores \ {propStore} : EffRerender(s)

NextEffNewStore ==
    \/ EffMountAny
    \/ EffDepsEffects
    \/ EffNewStoreRender
    \/ EffUnmount
    \/ Set
    \/ Update

SpecEffNewStore == Init /\ [][NextEffNewStore]_vars

\* The host runs the effects of a commit and every render that is queued.
SpecEffNewStoreLive ==
    /\ SpecEffNewStore
    /\ WF_vars(EffDepsEffects)
    /\ WF_vars(EffNewStoreRender)

\* The same component with useReadonlyStores: every invocation of the body
\* passes a collection that holds a store the previous one did not hold at
\* that key.
EffNewStoresRender ==
    /\ pendingContext # <<>> \/ pendingStoresContext # <<>>
    /\ \E c \in Collections :
           EntriesChanged(propStores, c) /\ EffStoresRerender(c)

NextEffNewStores ==
    \/ EffStoresMountAny
    \/ EffStoresEffects
    \/ EffNewStoresRender
    \/ EffUnmount
    \/ EffStoresSet
    \/ EffStoresUpdate

SpecEffNewStores == Init /\ [][NextEffNewStores]_vars

\* ------------------------------------------------------ the rerender flag
\* The updater of the rerender flag on its own, with a small modulus in the
\* place of Number.MAX_SAFE_INTEGER.
MaxModulus == 10

\* A flag the updater can have produced, for every modulus from 2 on.
InitRenderTrigger ==
    /\ InitHooks
    /\ \E m \in 2..MaxModulus : \E r \in 0..(m - 1) :
           renderTrigger = [modulus |-> m, flag |-> r, before |-> Undefined]

\* A delivery after the first: React applies the updater to the flag.
SetRerenderFlag ==
    /\ renderTrigger' =
           [renderTrigger EXCEPT
               !.flag = RerenderFlagUpdater(@, renderTrigger.modulus),
               !.before = renderTrigger.flag]
    /\ UNCHANGED <<storeVars, refVars, effVars, hostVars, obsVars, writeVars,
                   storesVars, peers, renders, children>>

NextRenderTrigger == SetRerenderFlag

SpecRenderTrigger == InitRenderTrigger /\ [][NextRenderTrigger]_vars

\* ---------------------------------------------------- wrapper components
\* The parent of the tests renders itself again at most this many times.
MaxParentRenders == 2

\* A wrapper that skips its render prop when the value is the one it passed
\* last time.
WithReadonlyStoreMemo(w, v) ==
    IF w.args = <<v>> THEN w
    ELSE [w EXCEPT !.childrenRenders = @ + 1, !.args = <<v>>]

\* <WithReadonlyStore store={s}>{children}</WithReadonlyStore>: the body
\* returns children(value).
WithReadonlyStore(w, v) ==
    [w EXCEPT !.childrenRenders = @ + 1, !.args = <<v>>]

\* <WithStore store={s}>: the body returns children(value, setValue).
WithStore(w, v, setValue) ==
    [w EXCEPT !.childrenRenders = @ + 1, !.args = <<v, setValue>>]

\* <WithReadonlyStores stores={c}>: the body returns children(values).
WithReadonlyStores(w, values) ==
    [w EXCEPT !.childrenRenders = @ + 1, !.args = <<values>>]

WrapperComponents == {"WithReadonlyStore", "WithStore", "WithReadonlyStores"}

\* The stores prop of <WithReadonlyStores> in the tests, and one more.
WithArrays == {ArrayOf(<<"A", "B">>), ArrayOf(<<"C">>)}

\* The prop the latest render of the wrapper received.
WithProp == IF children.component = "WithReadonlyStores" THEN propStores
            ELSE propStore

\* The hook the body of wrapper k calls, with the prop p.
WithBridge(k, p) ==
    CASE k = "WithReadonlyStore" ->
             RenderPass(p) /\ UNCHANGED <<setter, storesVars>>
      [] k = "WithStore" ->
             /\ RenderPass(p)
             /\ setter' = UseCallback(setter, p)
             /\ UNCHANGED storesVars
      [] OTHER -> StoresRenderPass(p) /\ UNCHANGED setter

\* What the body does with what the hook returned to this render.
WithBody(w) ==
    CASE w.component = "WithReadonlyStore" -> WithReadonlyStore(w, rendered')
      [] w.component = "WithStore" -> WithStore(w, rendered', setter')
      [] OTHER -> WithReadonlyStores(w, rendered')

\* The parent renders for the first time, the wrapper k in it.
WithMount(k, p) ==
    /\ phase = "unmounted"
    /\ phase' = "mounted"
    /\ WithBridge(k, p)
    /\ ScriptOff
    /\ children' = WithBody([component |-> k, parentRenders |-> 1,
                             childrenRenders |-> 0, args |-> <<>>])
    /\ renders' = 1
    /\ UNCHANGED <<value, effVars, changes, storeCalls, keptSetter, peers,
                   renderTrigger>>

\* The parent renders itself again (setRerenderMe) and passes the wrapper the
\* props it passed before.
WithRerender ==
    /\ phase = "mounted"
    /\ RefBased
    /\ pendingFlag = 0
    /\ children.parentRenders < MaxParentRenders
    /\ WithBridge(children.component, WithProp)
    /\ ScriptOff
    /\ children' = WithBody([children EXCEPT !.parentRenders = @ + 1])
    /\ renders' = renders + 1
    /\ UNCHANGED <<value, effVars, phase, changes, storeCalls, keptSetter, peers,
                   renderTrigger>>

\* The render of the wrapper the host runs because its hook changed the state.
WithFlushRender ==
    /\ phase = "mounted"
    /\ RefBased
    /\ pendingFlag > 0
    /\ WithBridge(children.component, WithProp)
    /\ ScriptOff
    /\ children' = WithBody(children)
    /\ renders' = renders + 1
    /\ UNCHANGED <<value, effVars, phase, changes, storeCalls, keptSetter, peers,
                   renderTrigger>>

\* <WithReadonlyStore> over the effect-based useReadonlyStore: the first
\* render of the parent.
WithEffMount(s) ==
    /\ phase = "unmounted"
    /\ phase' = "committed"
    /\ propStore' = s
    /\ SetHeap(ValueRead(Heap, s))
    /\ context' = value[s]
    /\ rendered' = value[s]
    /\ renders' = 1
    /\ ScriptOff
    /\ children' = WithBody([component |-> "WithReadonlyStore",
                             parentRenders |-> 1, childrenRenders |-> 0,
                             args |-> <<>>])
    /\ UNCHANGED <<value, refVars, pendingContext, effectSub, triggers, changes,
                   writeVars, storesVars, peers, renderTrigger>>

\* A later render of that wrapper: a queued setContext (fromParent FALSE) or
\* the parent rendering itself again with the same store (fromParent TRUE).
WithEffRender(fromParent) ==
    /\ phase = "mounted"
    /\ effectSub # 0
    /\ IF fromParent
       THEN /\ pendingContext = <<>>
            /\ children.parentRenders < MaxParentRenders
       ELSE pendingContext # <<>>
    /\ phase' = "committed"
    /\ context' = Latest(pendingContext, context)
    /\ pendingContext' = <<>>
    /\ rendered' = context'
    /\ renders' = renders + 1
    /\ children' = WithBody([children EXCEPT !.parentRenders =
                                IF fromParent THEN @ + 1 ELSE @])
    /\ UNCHANGED <<storeVars, refVars, effectSub, propStore, obsVars, writeVars,
                   storesVars, peers, renderTrigger>>

\* The parent is removed, and the wrapper with it.
WithUnmount == IF RefBased THEN Unmount ELSE EffUnmount

\* External code mutates a store the wrapper reads, inside act(): the host
\* has rendered the previous mutation before the next one is made.
WithSet == pendingFlag = 0 /\ pendingContext = <<>> /\ SetAny
WithUpdate == pendingFlag = 0 /\ pendingContext = <<>> /\ UpdateAny

\* A button the render prop of <WithStore> returned calls setValue.
WithSetterCall ==
    /\ children.component = "WithStore"
    /\ pendingFlag = 0
    /\ SetterCallAny

\* Either version of the hooks is under the wrapper; the props are drawn at
\* the mount.
NextWith ==
    \/ \E k \in WrapperComponents :
           \E p \in IF k = "WithReadonlyStores" THEN WithArrays ELSE Stores :
               WithMount(k, p)
    \/ WithRerender
    \/ WithFlushRender
    \/ \E s \in Stores : WithEffMount(s)
    \/ EffEffectsOnce
    \/ \E fromParent \in BOOLEAN : WithEffRender(fromParent)
    \/ WithUnmount
    \/ WithSet
    \/ WithUpdate
    \/ WithSetterCall

SpecWith == Init /\ [][NextWith]_vars

\* ------------------------------------------------------------ properties
SubscribeCalls(s) == Cardinality({i \in DOMAIN subs : subs[i].store = s})

RECURSIVE CallsUpTo(_, _)
CallsUpTo(s, n) ==
    IF n = 0 THEN 0
    ELSE CallsUpTo(s, n - 1) + (IF subs[n].store = s THEN subs[n].calls ELSE 0)

UnsubscribeCalls(s) == CallsUpTo(s, Len(subs))

Wrappers == [i \in DOMAIN subs |-> subs[i].wrappedValue]

\* A delivery has not been rendered yet, or the rendered value is not the
\* bound store's.
Unrendered ==
    /\ phase = "mounted"
    /\ pendingFlag > 0 \/ rendered # value[propStore]

UpToDate ==
    /\ phase = "mounted"
    /\ pendingFlag = 0
    /\ rendered = value[propStore]

\* C1: in the normal lifecycle, whenever the bound store has delivered a
\* mutation that the mounted component has not rendered, a render follows
\* that leaves nothing pending and returns the store's latest value, unless
\* the component is unmounted first.
C1_DeliveryLeadsToRender == Unrendered ~> (phase = "destroyed" \/ UpToDate)

C1_Witness ==
    /\ changes >= 2
    /\ rerenderFlag >= 2
    /\ UpToDate
    /\ rendered = 2

C4_SubscribeUnsubscribeBalance ==
    /\ \A i \in DOMAIN subs : subs[i].calls <= 1
    /\ phase = "destroyed" =>
          /\ \A i \in DOMAIN subs : subs[i].calls = 1 /\ ~subs[i].live
          /\ \A s \in Stores : UnsubscribeCalls(s) = SubscribeCalls(s)

C4_Witness ==
    /\ phase = "destroyed"
    /\ Len(subs) = 2
    /\ SubscribeCalls("A") = 1
    /\ UnsubscribeCalls("A") = 1
    /\ SubscribeCalls("B") = 1
    /\ UnsubscribeCalls("B") = 1
    /\ changes >= 1

\* C5: a mounted instance holds exactly one live subscription, on the store
\* of its latest render; every other store has none; after unmount no store
\* has any; the instance never holds two at once (the old one is released
\* before the new one is made); a mutation changes no subscriber count.
C5_OneLiveSubscription ==
    /\ [](/\ phase = "mounted" =>
                \A s \in Stores :
                    nOfSubscriptions(s) = IF s = propStore THEN 1 ELSE 0
          /\ phase = "destroyed" => \A s \in Stores : nOfSubscriptions(s) = 0
          /\ peak <= 1)
    /\ [][Set \/ Update =>
             \A s \in Stores :
                 NOfSubscriptionsIn(subs', s) = NOfSubscriptionsIn(subs, s)]_vars

C5_Witness ==
    /\ phase = "mounted"
    /\ Len(subs) = 2
    /\ subs[1].store = "A"
    /\ propStore = "B"
    /\ nOfSubscriptions("A") = 0
    /\ nOfSubscriptions("B") = 1
    /\ changes >= 1

\* C6: after unmount the subscription of the latest render's store has been
\* released, by exactly one call of its handle, and from then on no mutation
\* writes a value wrapper, calls setRerenderFlag or queues a state update.
C6_ReleasedOnceAtUnmount ==
    /\ [](phase = "destroyed" =>
             /\ contextRef # 0
             /\ subs[contextRef].store = propStore
             /\ ~subs[contextRef].live
             /\ subs[contextRef].calls = 1)
    /\ [][phase = "destroyed" =>
             /\ [i \in DOMAIN subs' |-> subs'[i].wrappedValue] = Wrappers
             /\ triggers' = triggers
             /\ pendingFlag' = pendingFlag
             /\ rerenderFlag' = rerenderFlag]_vars

C6_Witness ==
    /\ phase = "destroyed"
    /\ Len(subs) = 2
    /\ contextRef = 2
    /\ subs[2].calls = 1
    /\ value[propStore] # subs[contextRef].wrappedValue

Scenario == <<0, 1, 2, 3, 0>>

\* C10: store A starts at 0 and is read by the mounted component; after
\* update(c => c + 1) three times and set(0), each followed by its render,
\* the rendered values are 0, 1, 2, 3, 0: each mutation queues exactly one
\* render and that render leaves none queued.
C10_CounterScenario ==
    script > 0 =>
        /\ renderedSeq = SubSeq(Scenario, 1, (script + 1) \div 2)
        /\ rendered = renderedSeq[Len(renderedSeq)]
        /\ pendingFlag = IF script % 2 = 0 THEN 1 ELSE 0

C10_Witness ==
    /\ script = 9
    /\ renderedSeq = Scenario

\* C7: under strict double invocation the store never carries more than one
\* live subscription of the instance (a discarded attempt's subscription is
\* released before the committed one is made), and none after unmount.
C7_StrictNoLeak ==
    /\ \A s \in Stores : nOfSubscriptions(s) <= 1
    /\ \A i \in DOMAIN subs :
           subs[i].hook = "discarded" /\ phase # "attempt" => ~subs[i].live
    /\ phase = "destroyed" => \A s \in Stores : nOfSubscriptions(s) = 0

\* The instance is mounted and the host has no render left to run.
Settled ==
    /\ phase = "mounted"
    /\ pendingFlag = 0
    /\ ~staleScheduled

\* C8: under strict double invocation, after the effect mount -> cleanup ->
\* re-mount cycle the mounted component is still subscribed to its store:
\* once render processing has run, the rendered value is the store's; the
\* store has one subscriber while the component is mounted, none after.
C8_StrictStaysSubscribed ==
    /\ Settled => rendered = value[propStore]
    /\ phase = "mounted" =>
          /\ subs[contextRef].live
          /\ nOfSubscriptions(propStore) = 1
    /\ phase = "destroyed" => nOfSubscriptions(propStore) = 0

\* What the lazy-store test's mock counts: every subscribe call and every
\* value read as a subscription, every unsubscribe call and every value read
\* as an unsubscription.
Subscriptions(s) == SubscribeCalls(s) + valueReads[s]
Unsubscriptions(s) == UnsubscribeCalls(s) + valueReads[s]

\* C9: under strict double invocation of the effect-based hook on lazy
\* stores, the start handler of a store never runs more often than the store
\* is subscribed to; once mounted, the store of the latest render counts one
\* subscription more than unsubscriptions and every other store as many; after
\* unmount the counts are equal; a mutation changes neither count.
C9_LazyStoreCounts ==
    /\ [](/\ \A s \in Stores : initializations[s] <= Subscriptions(s)
          /\ phase = "mounted" =>
                \A s \in Stores :
                    Subscriptions(s) =
                        Unsubscriptions(s) + IF s = propStore THEN 1 ELSE 0
          /\ phase = "destroyed" =>
                \A s \in Stores : Subscriptions(s) = Unsubscriptions(s))
    /\ [][Set \/ Update =>
             /\ subs' = subs
             /\ valueReads' = valueReads
             /\ initializations' = initializations]_vars

\* The counts the test reads after the strict mount and two mutations:
\* 4 initializations, 4 subscriptions, 3 unsubscriptions.
C9_Witness ==
    /\ phase = "mounted"
    /\ propStore = "A"
    /\ initializations["A"] = 4
    /\ Subscriptions("A") = 4
    /\ Unsubscriptions("A") = 3
    /\ changes = 2
    /\ rendered = value["A"]
    /\ pendingContext = <<>>

\* C11: one call of the setter with a function calls update of the bound
\* store once with that function and does not call set; with anything else it
\* calls set once with that value and does not call update; the store then
\* holds f(previous), respectively the value, and no other store changes.
C11_SetterRoutes ==
    [][\A a \in SetterArgs :
           SetterCall(a) =>
               /\ storeCalls' = <<[op |-> IF a.isFunction THEN "update" ELSE "set",
                                   store |-> propStore, arg |-> a]>>
               /\ value' = [value EXCEPT ![propStore] =
                               IF a.isFunction THEN Apply(a.f, @) ELSE a.v]]_vars

C11_Witness ==
    /\ phase = "mounted"
    /\ propStore = "A"
    /\ storeCalls = <<[op |-> "update", store |-> "A",
                       arg |-> [isFunction |-> TRUE, f |-> "dec", v |-> 0]]>>
    /\ value["A"] = 2
    /\ changes = 2
    /\ rendered = 2

\* C12: a render whose store is the store of the previous render returns the
\* setter the previous render returned, whatever happened in between; the
\* setter a render returns is closed over that render's store.
C12_SetterIdentityStable ==
    /\ [](phase = "mounted" => setter.deps = propStore)
    /\ [][phase = "mounted" /\ phase' = "mounted" /\ propStore' = propStore
              => setter'.fn = setter.fn]_vars

C12_Witness ==
    /\ phase = "mounted"
    /\ setter.fn = 2
    /\ rerenderFlag >= 1
    /\ changes >= 2
    /\ pendingFlag = 0

StoresRenderStep == StoresMountAny \/ StoresRerenderAny \/ StoresFlushRender

\* The collection differs from the previous one: in length, or in the store
\* at some key.
Differs(old, new) ==
    \/ Len(old.entries) # Len(new.entries)
    \/ \E i \in DOMAIN old.entries :
           \A j \in DOMAIN new.entries :
               new.entries[j][1] = old.entries[i][1] =>
                   new.entries[j][2] # old.entries[i][2]

\* C14: a render makes a new derived store exactly when it is the first
\* render, or the collection differs from the previous render's in length or
\* in the store at some position; a render that makes none makes no
\* subscription either; the stores' values play no part in the decision.
C14_NewDerivedIffStoresDiffer ==
    [][StoresRenderStep =>
          IF phase = "unmounted" \/ Differs(propStores, propStores')
          THEN /\ derivedStores' = Append(derivedStores, propStores')
               /\ propStore' = DerivedNames[Len(derivedStores')]
          ELSE /\ derivedStores' = derivedStores
               /\ propStore' = propStore
               /\ Len(subs') = Len(subs)]_vars

C14_Witness ==
    /\ phase = "mounted"
    /\ derivedStores = <<ArrayOf(<<"A", "B">>), ArrayOf(<<"B", "A">>)>>
    /\ propStores = ArrayOf(<<"B", "A">>)
    /\ rerenderFlag >= 2
    /\ value["A"] # value["B"]
    /\ Len(subs) = 6

\* C16: with the stores [A, B], and with any other array, once the scheduled
\* render has run the value rendered at each position is the value of the
\* store at that position, whatever mutations came before; while the
\* component is mounted each store of the array has one subscriber and every
\* other store none; after unmount no store has any.
C16_CombinedValueFollowsStores ==
    /\ phase = "mounted" /\ pendingFlag = 0 =>
          /\ rendered.isArray
          /\ Len(rendered.entries) = Len(propStores.entries)
          /\ \A i \in DOMAIN propStores.entries :
                 rendered.entries[i][2] = value[propStores.entries[i][2]]
    /\ phase = "mounted" =>
          \A s \in AllStores :
              nOfSubscriptions(s) =
                  IF s \in SourceStores(propStores) THEN 1 ELSE 0
    /\ phase = "destroyed" =>
          \A s \in AllStores \cup DerivedStores : nOfSubscriptions(s) = 0

C16_Witness ==
    /\ phase = "destroyed"
    /\ propStores = ArrayOf(<<"A", "B">>)
    /\ Len(derivedStores) = 1
    /\ changes = 2
    /\ rerenderFlag = 2
    /\ rendered = [isArray |-> TRUE, entries |-> <<<<"0", 3>>, <<"1", 1>>>>]
    /\ value["A"] = 3
    /\ value["B"] = 1

\* C17: a render with a collection that differs from the previous one
\* releases the subscription on the previous derived store, which releases
\* each of its subscriptions on its sources once: after the render a store
\* that is not in the new collection has no subscriber, and a store of the
\* new collection has exactly one, whether or not it was in the previous one.
C17_PreviousDerivedReleased ==
    [][StoresRerenderAny /\ Differs(propStores, propStores') =>
          /\ NOfSubscriptionsIn(subs', propStore) = 0
          /\ \A i \in DOMAIN subs :
                 subs[i].live => ~subs'[i].live /\ subs'[i].calls = 1
          /\ \A s \in AllStores :
                 NOfSubscriptionsIn(subs', s) =
                     IF s \in SourceStores(propStores') THEN 1 ELSE 0]_vars

C17_Witness ==
    /\ phase = "mounted"
    /\ derivedStores = <<ArrayOf(<<"A", "B">>), ArrayOf(<<"C">>)>>
    /\ nOfSubscriptions("A") = 0
    /\ nOfSubscriptions("B") = 0
    /\ nOfSubscriptions("C") = 1
    /\ nOfSubscriptions("d1") = 0
    /\ nOfSubscriptions("d2") = 1

\* The effect-based component is mounted and the host has nothing left to run.
StoresSettled ==
    /\ phase = "mounted"
    /\ pendingContext = <<>>
    /\ pendingStoresContext = <<>>

\* The component was rendered with [A, B] and is now rendered with [B, A].
Reordered ==
    /\ propStores = ArrayOf(<<"B", "A">>)
    /\ \E k \in DOMAIN derivedStores : derivedStores[k] = ArrayOf(<<"A", "B">>)

\* C18: after the stores are reordered from [A, B] to [B, A], and after every
\* later mutation of A or B, whenever the host has run everything the hook
\* scheduled the rendered value is [value of B, value of A]: each store's
\* value is rendered at its new position and only there.
C18_ReorderedFollows ==
    (StoresSettled /\ Reordered) =>
        rendered = [isArray |-> TRUE,
                    entries |-> <<<<"0", value["B"]>>, <<"1", value["A"]>>>>]

C18_Witness ==
    /\ StoresSettled
    /\ derivedStores = <<ArrayOf(<<"A", "B">>), ArrayOf(<<"B", "A">>)>>
    /\ propStores = ArrayOf(<<"B", "A">>)
    /\ changes = 2
    /\ rendered = [isArray |-> TRUE, entries |-> <<<<"0", 1>>, <<"1", 2>>>>]

\* C19: once rendering has settled, the value returned has the shape and the
\* keys of the collection passed to the latest render, also when an earlier
\* render was passed an array and this one an object over the same stores (or
\* the other way round), whatever the object's keys; after unmount no store
\* has a subscriber.
C19_ShapeFollowsInput ==
    /\ StoresSettled =>
          /\ rendered.isArray = propStores.isArray
          /\ [i \in DOMAIN rendered.entries |-> rendered.entries[i][1]]
                 = [i \in DOMAIN propStores.entries |-> propStores.entries[i][1]]
    /\ phase = "destroyed" =>
          \A s \in AllStores \cup DerivedStores : nOfSubscriptions(s) = 0

\* C15: once rendering has settled, the value returned is parallel to the
\* collection passed to the latest render and of its shape: an array for an
\* array, an object for an object, with the same keys in the same order,
\* each holding the current value of the store at that key.
C15_ResultParallelToInput ==
    StoresSettled => rendered = DerivedValue(propStores, value)

\* C20: given an empty collection, once rendering has settled the value
\* returned is the empty array for [] and the empty object for {}, and no
\* source store has a subscriber.
C20_EmptyCollection ==
    (StoresSettled /\ propStores.entries = <<>>) =>
        /\ rendered = [isArray |-> propStores.isArray, entries |-> <<>>]
        /\ \A s \in AllStores : nOfSubscriptions(s) = 0

\* C24: every mutation that reaches the listener writes the value just
\* delivered to the value wrapper and calls setRerenderFlag once, also when
\* earlier deliveries have not been rendered yet; the render that follows
\* several deliveries returns the last value delivered.
C24_DeliveriesInOrder ==
    /\ [][(Set \/ Update) /\ changes' = changes + 1 =>
             /\ subs'[contextRef].wrappedValue = value'[propStore]
             /\ pendingFlag' = pendingFlag + 1
             /\ triggers' = triggers + 1]_vars
    /\ [][FlushRender =>
             /\ rendered' = subs[contextRef].wrappedValue
             /\ rendered' = value[propStore]]_vars

\* Two deliveries are waiting for one render.
C24_Witness ==
    /\ phase = "mounted"
    /\ propStore = "A"
    /\ pendingFlag = 2
    /\ rendered = 0
    /\ value["A"] = 2
    /\ subs[contextRef].wrappedValue = 2

\* A render step of the component using the ref-based useReadonlyStore.
RenderStep == MountAny \/ RerenderAny \/ FlushRender

\* C28: a render whose store is the bound store makes no subscribe and no
\* unsubscribe call and leaves the ref's subscription (store, handle, value
\* wrapper) as it is and calls setRerenderFlag zero times: the flag changes
\* by the updates that were queued before the render and by nothing else.  A
\* render whose store is not the bound one makes exactly one subscription.
C28_SameStoreNoResubscribe ==
    [][RenderStep =>
          IF propStore' = propStore
          THEN /\ subs' = subs
               /\ contextRef' = contextRef
               /\ triggers' = triggers
               /\ rerenderFlag' = Bump(rerenderFlag, pendingFlag)
               /\ pendingFlag' = 0
          ELSE /\ Len(subs') = Len(subs) + 1
               /\ contextRef' = Len(subs')
               /\ subs'[contextRef'].store = propStore']_vars

\* Two changes of identity made two subscriptions of the instance's two; a
\* render with the bound store and a scheduled render have run since.
C28_Witness ==
    /\ phase = "mounted"
    /\ Len(subs) = 2
    /\ contextRef = 2
    /\ subs[2].live
    /\ rerenderFlag >= 1
    /\ pendingFlag = 0
    /\ changes >= 1

\* External code mutates a store the component is not bound to.
OtherStoreMutation ==
    \E s \in Stores \ {propStore} :
        \/ \E v \in Values : StoreSet(s, v)
        \/ \E f \in Updaters : StoreUpdate(s, f)

\* C29: while the component is mounted, every subscription but the one of the
\* bound store has been released, and a mutation of any store other than the
\* bound one calls no listener of the component: no value wrapper is written,
\* setRerenderFlag is not called, the flag and the rendered value stay as
\* they are.
C29_ReleasedStoreIsSilent ==
    /\ [](phase = "mounted" =>
             \A i \in DOMAIN subs : i # contextRef => ~subs[i].live)
    /\ [][phase = "mounted" /\ OtherStoreMutation =>
             /\ subs' = subs
             /\ triggers' = triggers
             /\ pendingFlag' = pendingFlag
             /\ rerenderFlag' = rerenderFlag
             /\ rendered' = rendered]_vars

\* Bound to A, then to B; A was mutated after its release.
C29_Witness ==
    /\ phase = "mounted"
    /\ Len(subs) = 2
    /\ subs[1].store = "A"
    /\ propStore = "B"
    /\ value["A"] # subs[1].wrappedValue
    /\ rendered = value["B"]
    /\ triggers = 0

\* update(c => c) of store s, an updater that returns the object it was
\* given: set(current value).
SameReference(s) == StoreSet(s, value[s]) /\ UNCHANGED bridgeVars

\* The mutation of s to the value it holds reaches the component's listener:
\* it calls setRerenderFlag once, queues one render, and the wrapper holds the
\* same value as before.
DeliversSameReference(s) ==
    /\ SameReference(s)
    /\ triggers' = triggers + 1
    /\ pendingFlag' = pendingFlag + 1
    /\ subs'[contextRef].wrappedValue = value[s]
    /\ value' = value

\* C26: while the component is bound to store B, whose comparator always
\* reports a change, a mutation of B to the value it already holds is
\* delivered and queues exactly one render; bound to store A, which compares
\* with ===, the same mutation delivers nothing and queues no render.  The
\* scheduled render leaves none queued.
C26_ComparatorDecidesDelivery ==
    /\ [](phase = "mounted" /\ propStore = "B" /\ ENABLED SameReference("B")
             => ENABLED DeliversSameReference("B"))
    /\ [][phase = "mounted" /\ propStore = "B" /\ SameReference("B") =>
             DeliversSameReference("B")]_vars
    /\ [][phase = "mounted" /\ propStore = "A" /\ SameReference("A") =>
             /\ triggers' = triggers
             /\ pendingFlag' = pendingFlag
             /\ subs' = subs]_vars
    /\ [][FlushRender => pendingFlag' = 0]_vars

\* B still holds its initial value and one delivery of it has been rendered.
C26_Witness ==
    /\ phase = "mounted"
    /\ propStore = "B"
    /\ Len(subs) = 1
    /\ value["B"] = 0
    /\ changes = 1
    /\ triggers = 1
    /\ rerenderFlag = 1
    /\ pendingFlag = 0
    /\ rendered = 0

C30_KeptSetterWritesItsStore ==
    [][\A a \in SetterArgs :
           KeptSetterCall(a) =>
               /\ Len(storeCalls') = 1
               /\ storeCalls'[1].store = keptSetter.obtainedFor
               /\ \A s \in Stores \ {keptSetter.obtainedFor} :
                      value'[s] = value[s]]_vars

\* The setter obtained for A was called after the component was bound to B
\* and then unmounted: A changed after its subscription was released.
C30_Witness ==
    /\ phase = "destroyed"
    /\ keptSetter.obtainedFor = "A"
    /\ propStore = "B"
    /\ Len(subs) = 2
    /\ subs[1].store = "A"
    /\ value["A"] # subs[1].wrappedValue
    /\ storeCalls[1].store = "A"
    /\ value["B"] = subs[2].wrappedValue

\* The instances that are mounted and bound to s.
BoundTo(s) ==
    {p \in Instances : peers[p].phase = "mounted" /\ peers[p].propStore = s}

\* A step of instance p alone: a render, a re-binding or its unmount.
PeerStep(p) ==
    \/ \E s \in Stores : PeerMount(p, s) \/ PeerRerender(p, s)
    \/ PeerFlushRender(p)
    \/ PeerUnmount(p)

\* C23: the subscriber count of every store is the number of mounted
\* instances bound to it, each through its own live subscription; a mutation
\* that the store delivers writes the value to the wrapper of every instance
\* bound to the store and queues one render for each of them and for no
\* other; a step of one instance (render, re-binding, unmount) leaves the
\* subscriptions and the hook state of every other instance as they are; an
\* instance with no render queued has rendered its store's value.
C23_IndependentSubscriptions ==
    /\ [](\A s \in Stores : nOfSubscriptions(s) = Cardinality(BoundTo(s)))
    /\ [](\A p \in Instances :
              peers[p].phase = "mounted" =>
                  /\ subs[peers[p].contextRef].live
                  /\ subs[peers[p].contextRef].hook = p
                  /\ subs[peers[p].contextRef].store = peers[p].propStore
                  /\ peers[p].pendingFlag = 0 =>
                         peers[p].rendered = value[peers[p].propStore])
    /\ [][\A s \in Stores :
              SharedUpdateAny /\ value'[s] # value[s] =>
                  \A p \in Instances :
                      IF p \in BoundTo(s)
                      THEN /\ peers'[p].pendingFlag = peers[p].pendingFlag + 1
                           /\ subs'[peers[p].contextRef].wrappedValue = value'[s]
                      ELSE peers'[p] = peers[p]]_vars
    /\ [][\A p \in Instances :
              PeerStep(p) =>
                  \A q \in Instances \ {p} :
                      /\ peers'[q] = peers[q]
                      /\ \A i \in DOMAIN subs :
                             subs[i].hook = q => subs'[i] = subs[i]]_vars

\* Both instances were bound to A and rendered a mutation of it; the first
\* was then bound to B and unmounted, and the second has rendered a later
\* mutation of A.
C23_Witness ==
    /\ peers["i1"].phase = "destroyed"
    /\ peers["i1"].propStore = "B"
    /\ peers["i1"].rerenderFlag = 1
    /\ peers["i2"].phase = "mounted"
    /\ peers["i2"].propStore = "A"
    /\ peers["i2"].rerenderFlag = 2
    /\ peers["i2"].pendingFlag = 0
    /\ peers["i2"].rendered = 2
    /\ nOfSubscriptions("A") = 1
    /\ nOfSubscriptions("B") = 0
    /\ Len(subs) = 3

\* C27: in the effect-based hook outside strict mode, the first render
\* commits with no render queued; the effect's subscription delivers the
\* current value, which queues exactly one render; that render is the second
\* commit and queues nothing.  From then on, with each mutation rendered
\* before the next, the committed renders are two plus the mutations of the
\* bound store that failed its equality check: one render is queued by each
\* and one is committed for each.
C27_TwoRendersOnMount ==
    /\ phase = "committed" /\ effectSub = 0 =>
          renders = 1 /\ pendingContext = <<>>
    /\ phase = "mounted" /\ pendingContext # <<>> =>
          /\ Len(pendingContext) = 1
          /\ pendingContext[1] = value[propStore]
          /\ renders = 1 + changes
    /\ phase \in {"committed", "mounted"} /\ effectSub # 0
           /\ pendingContext = <<>> =>
          /\ renders = 2 + changes
          /\ rendered = value[propStore]
    /\ phase = "destroyed" => renders <= 2 + changes

\* Mounted, two renders; one mutation, a third render (the count the test
\* reads).
C27_Witness ==
    /\ phase = "mounted"
    /\ propStore = "A"
    /\ changes = 1
    /\ renders = 3
    /\ rendered = value["A"]
    /\ rendered # 0
    /\ pendingContext = <<>>
    /\ nOfSubscriptions("A") = 1

\* The positions of a collection that hold store s.
PositionsOf(c, s) == {i \in DOMAIN c.entries : c.entries[i][2] = s}

\* The hook of either version has nothing left to render.
NothingQueued ==
    /\ phase = "mounted"
    /\ pendingFlag = 0
    /\ pendingContext = <<>>
    /\ pendingStoresContext = <<>>

\* C21: with a collection that holds a store at several positions, once the
\* queued renders have run the rendered value has the shape and keys of the
\* collection and holds, at every position, the current value of the store
\* at that position, so a mutation of the repeated store shows at each of
\* its positions; after unmount no store has a subscriber.
C21_RepeatedStore ==
    /\ NothingQueued =>
          /\ rendered.isArray = propStores.isArray
          /\ Len(rendered.entries) = Len(propStores.entries)
          /\ \A i \in DOMAIN propStores.entries :
                 rendered.entries[i] =
                     <<propStores.entries[i][1], value[propStores.entries[i][2]]>>
    /\ phase = "destroyed" =>
          \A s \in AllStores \cup DerivedStores : nOfSubscriptions(s) = 0

\* [A, A] was rendered, A was mutated twice, both positions show its value;
\* the component is unmounted and A has no subscriber.
C21_Witness ==
    /\ phase = "destroyed"
    /\ propStores = ArrayOf(<<"A", "A">>)
    /\ Cardinality(PositionsOf(propStores, "A")) = 2
    /\ changes = 2
    /\ value["A"] = 2
    /\ rendered = [isArray |-> TRUE, entries |-> <<<<"0", 2>>, <<"1", 2>>>>]
    /\ nOfSubscriptions("A") = 0

\* The wrapper is mounted and no render of it is queued.
WithAtRest ==
    /\ children.component # "none"
    /\ phase = "mounted"
    /\ pendingFlag = 0
    /\ pendingContext = <<>>

\* C22: a wrapper component calls its render prop once in every render, with
\* what its hook returned to that render (the value or values, and for
\* WithStore the setter); a render of the parent with the same stores adds one
\* call, and so does a mutation that changes the value of a store it reads
\* (the mount over the effect-based hook takes one render more).
C22_WrapperRendersFollowBridge ==
    /\ [](children.component # "none" =>
            /\ children.childrenRenders = renders
            /\ children.args = IF children.component = "WithStore"
                               THEN <<rendered, setter>> ELSE <<rendered>>)
    /\ [](WithAtRest =>
            children.childrenRenders =
                children.parentRenders + changes
                + (IF effectSub # 0 THEN 1 ELSE 0))
    /\ [][children.component # "none"
          /\ children'.parentRenders # children.parentRenders =>
              /\ children'.parentRenders = children.parentRenders + 1
              /\ children'.childrenRenders = children.childrenRenders + 1
              /\ UNCHANGED <<value, subs, changes>>]_vars

\* The counts of the test: the parent rendered once and the store was set
\* once, three calls; the parent rendered again, four.
C22_Witness ==
    /\ WithAtRest
    /\ effectSub # 0
    /\ children.parentRenders = 2
    /\ changes = 1
    /\ children.childrenRenders = 4
    /\ children.args = <<rendered>>

\* A render of the effect-based component is committed.
EffRenderStep == phase # "committed" /\ phase' = "committed"

\* C31: every committed render of the effect-based useReadonlyStore returns
\* the current value of the store that render was given, also the render in
\* which the store prop changes from one store to another.
C31_RenderReturnsCurrentValue ==
    [][EffRenderStep => rendered' = value'[propStore']]_vars

\* What the hook does give: once the effects of the commit have run and the
\* render they queued is committed, the value is the one of the store passed.
C31_CurrentOnceSettled ==
    phase = "mounted" /\ pendingContext = <<>> => rendered = value[propStore]

\* The render after the prop changed from A to B showed A's value.
C31_StaleRender ==
    /\ phase = "committed"
    /\ effectSub # 0
    /\ subs[effectSub].store = "A"
    /\ propStore = "B"
    /\ rendered = value["A"]
    /\ rendered # value["B"]

\* The effect-based component is mounted and no render of it is queued.
EffQuiescent == phase = "mounted" /\ pendingContext = <<>>

C32_EveryResubscribeQueuesARender ==
    phase = "mounted" => pendingContext # <<>>

\* The same for useReadonlyStores: the effects of every commit find the
\* collection changed or subscribe to a new derived store, and queue a render.
C32_EveryNewCollectionQueuesARender ==
    phase = "mounted" /\ storesContext # NoContext =>
        pendingContext # <<>> \/ pendingStoresContext # <<>>

\* C33: for every modulus from 2 on, the updater (r) => (r + 1) % modulus
\* turns a flag in 0..modulus-1 into another flag in 0..modulus-1, also when
\* the flag is modulus-1 and the result wraps around to 0: every delivery
\* after the first changes the state of the component.
C33_FlagChangesWithinRange ==
    /\ [](renderTrigger.flag \in 0..(renderTrigger.modulus - 1))
    /\ [](renderTrigger.flag # renderTrigger.before)
    /\ [][renderTrigger'.flag # renderTrigger.flag
          /\ renderTrigger'.before = renderTrigger.flag]_vars

\* The wrap-around: the flag was modulus-1 and the updater made it 0.
C33_Witness ==
    /\ renderTrigger.modulus = MaxModulus
    /\ renderTrigger.before = renderTrigger.modulus - 1
    /\ renderTrigger.flag = 0

====
